---- MODULE Spec2Model ----
(***************************************************************************)
(* A model of the M-Pesa payment bridge (src/mpesa.py, src/app.py):        *)
(*   - MPesaClient: the cached OAuth token and the status-query retry loop *)
(*   - MPesaCallback.process_callback: the webhook payload interpreter     *)
(*   - mpesa_callback / stream: store, message_queue and the SSE streams   *)
(*   - normalize_phone_number                                              *)
(* Python and JSON values are tagged records: None/null, str, num, obj,     *)
(* arr; a JSON number is carried as its decimal text.                      *)
(***************************************************************************)
EXTENDS Integers, Sequences, FiniteSets, TLC

VARIABLES
    \* ---- MPesaClient (src/mpesa.py) ----
    now,               \* datetime.datetime.now(), in minutes
    token,             \* self.token
    token_expires_at,  \* self.token_expires_at
    pc,                \* per caller thread: the statement it is at
    op,                \* per caller thread: the public method it runs
    attempt,           \* per caller thread: loop variable of query_transaction_status
    responses,         \* per caller thread: status codes the query endpoint gave this call
    sleeps,            \* per caller thread: time.sleep(retry_delay) calls of this call
    result,            \* per caller thread: what the method returned or raised
    cached,            \* per caller thread: _get_mpesa_token returned at line 88
    tokenRequests,     \* GETs sent to /oauth/v1/generate
    calls,             \* public method calls started so far
    args,              \* per caller thread: the arguments and locals of send_stk_push
    pushRequests,      \* POSTs sent to /mpesa/stkpush/v1/processrequest
    \* ---- MPesaCallback.process_callback (src/app.py) ----
    cb_input,          \* the callback_data process_callback is called with
    cb_result,         \* what process_callback returned or raised
    \* ---- mpesa_callback, stream, store_transaction_details (src/app.py) ----
    message_queue,     \* the global queue.Queue
    db,                \* the rows of the transaction table, in insertion order
    hpc,               \* per webhook handler thread: the statement it is at
    hdetails,          \* per webhook handler thread: its transaction_details
    hdata,             \* per webhook handler thread: its callback_data
    hrow,              \* per webhook handler thread: the row its request added (0: none)
    reply,             \* per webhook handler thread: the response it last gave
    sub,               \* per stream client: no stream yet, waiting in get, or ended
    received,          \* per stream client: the frames event_stream yielded to it
    published,         \* history: every message_queue.put, with who was waiting then
    webhooks,          \* webhook requests received so far
    \* ---- normalize_phone_number (src/mpesa.py) ----
    norm_input,        \* the phone_number normalize_phone_number is called with
    norm_result        \* what normalize_phone_number returned or raised

gatewayVars == <<now, token, token_expires_at, pc, op, attempt, responses,
                 sleeps, result, cached, tokenRequests, calls>>

pushVars == <<args, pushRequests>>

callbackVars == <<cb_input, cb_result>>

streamVars == <<message_queue, db, hpc, hdetails, hdata, hrow, reply, sub, received,
                published, webhooks>>

normVars == <<norm_input, norm_result>>

vars == <<gatewayVars, pushVars, callbackVars, streamVars, normVars>>

\* Python values: None (JSON null), str, number, dict (JSON object), list
None == [t |-> "null"]
Str(s) == [t |-> "str", v |-> s]
Num(n) == [t |-> "num", v |-> n]
Obj(f) == [t |-> "obj", v |-> f]
Arr(s) == [t |-> "arr", v |-> s]
\* a datetime, as minutes since the start of the run
DateTime(m) == [t |-> "datetime", v |-> m]

\* {}
EmptyDict == Obj([k \in {} |-> None])
\* d.get(k, default)
DictGet(d, k, default) == IF k \in DOMAIN d.v THEN d.v[k] ELSE default

-----------------------------------------------------------------------------
(* Bounds of the model *)
MaxTime == 50
TickMinutes == 25
MaxCalls == 2
MaxItems == 4
MaxWebhooks == 2
MaxLen == 5

Callers == {"t1", "t2"}
Handlers == {"h1", "h2"}
Subscribers == {"s1", "s2"}

-----------------------------------------------------------------------------
(* MPesaClient *)

\* timedelta(minutes=50), line 103-105
TOKEN_LIFETIME == 50
\* the loop bound off by one
max_retries_plus_one == 3 + 1
\* max_retries, line 196
max_retries == 3

\* the cache test with the comparison reversed
TokenValid_reversed ==
    /\ token # None
    /\ token_expires_at # None
    /\ now > token_expires_at.v

\* the cache test of _get_mpesa_token, lines 83-87
TokenValid ==
    /\ token # None
    /\ token_expires_at # None
    /\ now < token_expires_at.v

Raise(msg) == [kind |-> "raise", value |-> msg]
Return(v) == [kind |-> "return", value |-> v]
NoResult == [kind |-> "none", value |-> None]

GatewayInit ==
    /\ now = 0
    /\ token = None
    /\ token_expires_at = None
    /\ pc = [c \in Callers |-> "idle"]
    /\ op = [c \in Callers |-> "none"]
    /\ attempt = [c \in Callers |-> 0]
    /\ responses = [c \in Callers |-> <<>>]
    /\ sleeps = [c \in Callers |-> 0]
    /\ result = [c \in Callers |-> NoResult]
    /\ cached = [c \in Callers |-> FALSE]
    /\ tokenRequests = 0
    /\ calls = 0

\* the clock advances
Tick ==
    /\ now + TickMinutes <= MaxTime
    /\ now' = now + TickMinutes
    /\ UNCHANGED <<token, token_expires_at, pc, op, attempt, responses, sleeps,
                   result, cached, tokenRequests, calls>>

\* a thread enters a public method of the client
StartCall(c, method) ==
    /\ pc[c] = "idle"
    /\ calls < MaxCalls
    /\ calls' = calls + 1
    /\ op' = [op EXCEPT ![c] = method]
    /\ pc' = [pc EXCEPT ![c] = "token_check"]
    /\ attempt' = [attempt EXCEPT ![c] = 0]
    /\ responses' = [responses EXCEPT ![c] = <<>>]
    /\ sleeps' = [sleeps EXCEPT ![c] = 0]
    /\ result' = [result EXCEPT ![c] = NoResult]
    /\ cached' = [cached EXCEPT ![c] = FALSE]
    /\ UNCHANGED <<now, token, token_expires_at, tokenRequests>>

\* _get_mpesa_token called on its own
StartAuthenticate(c) == StartCall(c, "authenticate")

\* query_transaction_status, lines 196-201: first iteration reaches the token call
StartQuery(c) == StartCall(c, "query")

\* where a thread goes once _get_mpesa_token has returned tok
AfterToken(c, tok) ==
    IF op[c] = "authenticate"
    THEN /\ pc' = [pc EXCEPT ![c] = "done"]
         /\ result' = [result EXCEPT ![c] = Return(tok)]
    ELSE /\ pc' = [pc EXCEPT ![c] = IF op[c] = "stk_push" THEN "push_post"
                                     ELSE "query_post"]
         /\ UNCHANGED result

\* _get_mpesa_token, lines 83-88: the cache test
TokenCheck(c) ==
    /\ pc[c] = "token_check"
    /\ IF TokenValid
       THEN /\ AfterToken(c, token)
            /\ cached' = [cached EXCEPT ![c] = TRUE]
       ELSE /\ pc' = [pc EXCEPT ![c] = "token_request"]
            /\ cached' = [cached EXCEPT ![c] = FALSE]
            /\ UNCHANGED result
    /\ UNCHANGED <<now, token, token_expires_at, op, attempt, responses, sleeps,
                   tokenRequests, calls>>

\* _get_mpesa_token, lines 90-108: the request succeeded; access_token may be absent
TokenGranted(c, hasToken) ==
    /\ pc[c] = "token_request"
    /\ tokenRequests' = tokenRequests + 1
    /\ token' = IF hasToken THEN Str(tokenRequests + 1) ELSE None
    /\ token_expires_at' = DateTime(now + TOKEN_LIFETIME)
    /\ AfterToken(c, token')
    /\ UNCHANGED <<now, op, attempt, responses, sleeps, cached, calls>>

\* _get_mpesa_token, lines 110-112: the request failed; MPesaError leaves the
\* except clause of query_transaction_status (line 237) uncaught
TokenRefused(c) ==
    /\ pc[c] = "token_request"
    /\ tokenRequests' = tokenRequests + 1
    /\ pc' = [pc EXCEPT ![c] = "done"]
    /\ result' = [result EXCEPT ![c] = Raise("Failed to generate M-Pesa token")]
    /\ UNCHANGED <<now, token, token_expires_at, op, attempt, responses, sleeps,
                   cached, calls>>

\* requests.post at line 211 came back: the response is logged
Post(c, response) ==
    /\ pc[c] = "query_post"
    /\ responses' = [responses EXCEPT ![c] = Append(@, response)]

\* query_transaction_status, lines 213-218: status 500
QueryServerError(c) ==
    /\ Post(c, [status |-> 500])
    /\ pc' = [pc EXCEPT ![c] = "query_sleep"]
    /\ UNCHANGED <<now, token, token_expires_at, op, attempt, sleeps, result,
                   cached, tokenRequests, calls>>

\* the dict returned at lines 230-235
StatusResult(status_data) ==
    [result_code |-> DictGet(status_data, "ResultCode", None),
     result_desc |-> DictGet(status_data, "ResultDesc", Str("No description provided")),
     status_message |-> DictGet(status_data, "statusMessage", Str("No message")),
     metadata |-> DictGet(status_data, "CallbackMetadata", EmptyDict)]

\* query_transaction_status, lines 220-235: a success status with a JSON body
QuerySuccess(c, status_data) ==
    /\ Post(c, [status |-> 200, body |-> status_data])
    /\ pc' = [pc EXCEPT ![c] = "done"]
    /\ result' = [result EXCEPT ![c] = Return(StatusResult(status_data))]
    /\ UNCHANGED <<now, token, token_expires_at, op, attempt, sleeps, cached,
                   tokenRequests, calls>>

\* query_transaction_status, lines 237-245: requests.RequestException, from
\* raise_for_status at line 220 (any error status but 500, here 503) or from
\* requests.post itself
QueryRequestException(c) ==
    /\ Post(c, [status |-> 503])
    /\ IF attempt[c] = max_retries - 1
       THEN /\ pc' = [pc EXCEPT ![c] = "done"]
            /\ result' = [result EXCEPT ![c] = Raise("Persistent API error")]
       ELSE /\ pc' = [pc EXCEPT ![c] = "query_sleep"]
            /\ UNCHANGED result
    /\ UNCHANGED <<now, token, token_expires_at, op, attempt, sleeps, cached,
                   tokenRequests, calls>>

\* time.sleep(retry_delay) at line 217 or 245, then the next iteration of
\* the for loop of line 199, or line 247 when the range is exhausted
QuerySleep(c) ==
    /\ pc[c] = "query_sleep"
    /\ sleeps' = [sleeps EXCEPT ![c] = @ + 1]
    /\ attempt' = [attempt EXCEPT ![c] = @ + 1]
    /\ IF attempt[c] + 1 < max_retries
       THEN /\ pc' = [pc EXCEPT ![c] = "token_check"]
            /\ UNCHANGED result
       ELSE /\ pc' = [pc EXCEPT ![c] = "done"]
            /\ result' = [result EXCEPT ![c] =
                 Raise("Unable to query transaction status after maximum retries")]
    /\ UNCHANGED <<now, token, token_expires_at, op, responses, cached,
                   tokenRequests, calls>>

\* the caller takes the result and the method's locals are gone; the thread
\* is free for another call
Finish(c) ==
    /\ pc[c] = "done"
    /\ pc' = [pc EXCEPT ![c] = "idle"]
    /\ op' = [op EXCEPT ![c] = "none"]
    /\ attempt' = [attempt EXCEPT ![c] = 0]
    /\ responses' = [responses EXCEPT ![c] = <<>>]
    /\ sleeps' = [sleeps EXCEPT ![c] = 0]
    /\ result' = [result EXCEPT ![c] = NoResult]
    /\ cached' = [cached EXCEPT ![c] = FALSE]
    /\ UNCHANGED <<now, token, token_expires_at, tokenRequests, calls>>

\* bodies the status-query endpoint answers with
StatusBodies ==
    { Obj([ResultCode |-> Str("0"),
           ResultDesc |-> Str("The service request is processed successfully.")]),
      Obj([ResultCode |-> Str("1032"), ResultDesc |-> Str("Request cancelled by user"),
           statusMessage |-> Str("cancelled")]),
      EmptyDict }

GatewayIdle == GatewayInit

-----------------------------------------------------------------------------
(* MPesaCallback.process_callback (src/app.py) *)

\* x.get exists: x is a dict
IsDict(x) == x.t = "obj"

\* what the try block of process_callback yields: the dict it returns, or
\* the exception some statement raised
Details(d) == [ok |-> TRUE, details |-> d]
Raised == [ok |-> FALSE]

\* lines 78-86
InitialDetails(checkout_request_id, result_code, result_desc) ==
    [checkout_request_id |-> checkout_request_id,
     result_code |-> result_code,
     result_desc |-> result_desc,
     amount |-> None,
     mpesa_receipt_number |-> None,
     transaction_date |-> None,
     phone_number |-> None]

\* the loop body with the PhoneNumber branch lost
ApplyItem_no_phone(d, item) ==
    LET name == DictGet(item, "Name", None)
        value == DictGet(item, "Value", None)
    IN  IF name = Str("Amount") THEN [d EXCEPT !.amount = value]
        ELSE IF name = Str("MpesaReceiptNumber")
             THEN [d EXCEPT !.mpesa_receipt_number = value]
        ELSE IF name = Str("TransactionDate")
             THEN [d EXCEPT !.transaction_date = value]
        ELSE d

\* lines 92-101: one iteration of the loop over the metadata items
ApplyItem(d, item) ==
    LET name == DictGet(item, "Name", None)
        value == DictGet(item, "Value", None)
    IN  IF name = Str("Amount") THEN [d EXCEPT !.amount = value]
        ELSE IF name = Str("MpesaReceiptNumber")
             THEN [d EXCEPT !.mpesa_receipt_number = value]
        ELSE IF name = Str("TransactionDate")
             THEN [d EXCEPT !.transaction_date = value]
        ELSE IF name = Str("PhoneNumber") THEN [d EXCEPT !.phone_number = value]
        ELSE d

\* lines 91-101: the loop; an item without .get raises AttributeError
RECURSIVE ApplyItems(_, _)
ApplyItems(d, items) ==
    IF items = <<>> THEN Details(d)
    ELSE IF ~IsDict(Head(items)) THEN Raised
    ELSE ApplyItems(ApplyItem(d, Head(items)), Tail(items))

\* the metadata read whatever the result code
ProcessMetadata_unguarded(stkCallback, d) ==
    LET meta == DictGet(stkCallback, "CallbackMetadata", EmptyDict)
    IN  IF ~IsDict(meta) THEN Raised
        ELSE LET metadata_items == DictGet(meta, "Item", Arr(<<>>))
             IN  IF metadata_items.t = "arr"
                 THEN ApplyItems(d, metadata_items.v)
                 ELSE Details(d)

\* lines 89-101: the metadata is read only when result_code == 0
ProcessMetadata(stkCallback, d) ==
    IF d.result_code # Num("0") THEN Details(d)
    ELSE LET meta == DictGet(stkCallback, "CallbackMetadata", EmptyDict)
         IN  IF ~IsDict(meta) THEN Raised
             ELSE LET metadata_items == DictGet(meta, "Item", Arr(<<>>))
                  IN  IF metadata_items.t = "arr"
                      THEN ApplyItems(d, metadata_items.v)
                      ELSE IF metadata_items = EmptyDict \/ metadata_items = Str("")
                           THEN Details(d)
                           ELSE Raised

\* lines 70-104: the try block
TryProcess(callback_data) ==
    IF ~IsDict(callback_data) THEN Raised
    ELSE LET body == DictGet(callback_data, "Body", EmptyDict)
         IN  IF ~IsDict(body) THEN Raised
             ELSE LET stkCallback == DictGet(body, "stkCallback", EmptyDict)
                  IN  IF ~IsDict(stkCallback) THEN Raised
                      ELSE ProcessMetadata(stkCallback,
                             InitialDetails(DictGet(stkCallback, "CheckoutRequestID", None),
                                            DictGet(stkCallback, "ResultCode", None),
                                            DictGet(stkCallback, "ResultDesc", None)))

\* lines 68-108: any exception becomes ValueError
process_callback(callback_data) ==
    LET r == TryProcess(callback_data)
    IN  IF r.ok THEN Return(r.details)
        ELSE Raise("Invalid callback data structure.")

\* a key left out of a dict under construction
Absent == [t |-> "absent"]
\* the dict with the keys of f whose value is not Absent
MkDict(f) == Obj([k \in {x \in DOMAIN f : f[x] # Absent} |-> f[k]])

\* metadata items the gateway may send
ItemSet ==
    { MkDict([Name |-> Str("Amount"), Value |-> Num("500")]),
      MkDict([Name |-> Str("Amount"), Value |-> None]),
      MkDict([Name |-> Str("MpesaReceiptNumber"), Value |-> Str("ABC123")]),
      MkDict([Name |-> Str("TransactionDate"), Value |-> Num("20240101120000")]),
      MkDict([Name |-> Str("PhoneNumber"), Value |-> Num("254712345678")]),
      MkDict([Name |-> Str("PhoneNumber"), Value |-> Absent]),
      MkDict([Name |-> Str("Balance"), Value |-> Num("10")]),
      MkDict([Name |-> Absent, Value |-> Str("x")]) }

ItemLists == UNION { [1..n -> ItemSet] : n \in 0..MaxItems }

\* the webhook shape of the gateway
StkPayload(id, code, desc, meta) ==
    MkDict([Body |-> MkDict([stkCallback |->
        MkDict([CheckoutRequestID |-> id, ResultCode |-> code,
                ResultDesc |-> desc, CallbackMetadata |-> meta])])])

\* well-formed payloads with every metadata list
MetadataPayloads ==
    { StkPayload(Str("ws_CO_1"), code, Str("desc"), MkDict([Item |-> Arr(l)])) :
        code \in {Num("0"), Num("1")}, l \in ItemLists }

\* payloads with fields or containers absent, null or of another type
StructurePayloads ==
    { StkPayload(id, code, desc, meta) :
        id \in {Absent, None, Str("ws_CO_1")},
        code \in {Absent, None, Num("0"), Num("1032"), Str("0")},
        desc \in {Absent, Str("desc")},
        meta \in {Absent, None, EmptyDict, MkDict([Item |-> None]),
                  MkDict([Item |-> Arr(<<Str("x")>>)]),
                  MkDict([Item |-> Arr(<<MkDict([Name |-> Str("Amount"),
                                                  Value |-> Num("500")])>>)])} }
    \cup { None, EmptyDict, MkDict([Body |-> None]), MkDict([Body |-> EmptyDict]),
           MkDict([Body |-> MkDict([stkCallback |-> None])]) }

CallbackIdle ==
    /\ cb_input = None
    /\ cb_result = NoResult

CallbackInit ==
    /\ cb_input \in MetadataPayloads \cup StructurePayloads
    /\ cb_result = NoResult

\* MPesaCallback.process_callback(callback_data) is called
ProcessCallback ==
    /\ cb_result = NoResult
    /\ cb_result' = process_callback(cb_input)
    /\ UNCHANGED cb_input

-----------------------------------------------------------------------------
(* mpesa_callback, store_transaction_details, stream (src/app.py) *)

\* the keys of transaction_details in the order of lines 78-86
DetailKeys ==
    <<"checkout_request_id", "result_code", "result_desc", "amount",
      "mpesa_receipt_number", "transaction_date", "phone_number">>

\* str() of a value where its JSON literal belongs
JsonLiteral_str(value) ==
    IF value = None THEN [lit |-> "string", text |-> "None"]
    ELSE IF value.t = "str" THEN [lit |-> "string", text |-> value.v]
    ELSE [lit |-> "number", text |-> value.v]

\* json.dumps of a scalar: null, a quoted string or a number
JsonLiteral(value) ==
    IF value = None THEN [lit |-> "null"]
    ELSE IF value.t = "str" THEN [lit |-> "string", text |-> value.v]
    ELSE [lit |-> "number", text |-> value.v]

\* json.dumps(transaction_details): the members in insertion order
JsonDumps(d) ==
    [i \in 1..Len(DetailKeys) |-> <<DetailKeys[i], JsonLiteral(d[DetailKeys[i]])>>]

\* line 207: the frame f"data: {json.dumps(transaction_details)}\n\n"; serial
\* tells which put the item came from
DataFrame(item) ==
    [kind |-> "data", data |-> JsonDumps(item.details), serial |-> item.serial]
\* line 210
KeepAliveFrame == [kind |-> "keep-alive"]

\* nullable=False columns of Transaction, lines 43-44: the commit of line 229 fails
ViolatesNotNull(d) == d.result_code = None \/ d.result_desc = None

\* the row of lines 219-227
Row(d) == d

\* the JSON bodies of lines 191-195 and 198
Accepted(d) == [status |-> 200, ResultCode |-> 0, transaction_details |-> d]
Failed_ok(msg) == [status |-> 200, ResultCode |-> 0, ResultDesc |-> msg]
Failed(msg) == [status |-> 500, ResultCode |-> 1, ResultDesc |-> msg]
NoReply == [status |-> 0]

\* payloads the webhook receives
WebhookPayloads ==
    { StkPayload(Str("ws_CO_1"), Num("0"), Str("ok"),
                 MkDict([Item |-> Arr(<<MkDict([Name |-> Str("Amount"),
                                                 Value |-> Num("500")])>>)])),
      StkPayload(Str("ws_CO_2"), Num("1032"), Str("cancelled"), Absent),
      StkPayload(Absent, Num("1"), Str("failed"), Absent),
      StkPayload(Str("ws_CO_1"), Absent, Str("ok"), Absent),
      MkDict([Body |-> None]) }

\* Queue.put
QueuePut(q, item) == Append(q, item)

\* the stream clients blocked in message_queue.get
Waiting == {x \in Subscribers : sub[x] = "waiting"}

\* db.session.add and db.session.commit, lines 228-229, replacing a row that
\* has the same checkout_request_id
DbUpsert(rows, row) ==
    IF \E i \in 1..Len(rows) : rows[i].checkout_request_id = row.checkout_request_id
    THEN [i \in 1..Len(rows) |->
            IF rows[i].checkout_request_id = row.checkout_request_id THEN row
            ELSE rows[i]]
    ELSE Append(rows, row)

\* db.session.add and db.session.commit, lines 228-229: one more row
DbAdd(rows, row) == Append(rows, row)

StreamInit ==
    /\ message_queue = <<>>
    /\ db = <<>>
    /\ hpc = [h \in Handlers |-> "idle"]
    /\ hdetails = [h \in Handlers |-> None]
    /\ hdata = [h \in Handlers |-> None]
    /\ hrow = [h \in Handlers |-> 0]
    /\ reply = [h \in Handlers |-> NoReply]
    /\ sub = [x \in Subscribers |-> "none"]
    /\ received = [x \in Subscribers |-> <<>>]
    /\ published = <<>>
    /\ webhooks = 0

StreamIdle == StreamInit

\* a webhook request reaches an idle handler thread
Receives(h) ==
    /\ hpc[h] = "idle"
    /\ webhooks < MaxWebhooks
    /\ webhooks' = webhooks + 1

\* mpesa_callback, lines 174-178 and 196-198: process_callback raised
CallbackRejected(h, payload) ==
    /\ Receives(h)
    /\ process_callback(payload).kind = "raise"
    /\ reply' = [reply EXCEPT ![h] = Failed(process_callback(payload).value)]
    /\ hdata' = [hdata EXCEPT ![h] = payload]
    /\ hrow' = [hrow EXCEPT ![h] = 0]
    /\ UNCHANGED <<message_queue, db, hpc, hdetails, sub, received, published>>

\* the store raised, and the handler put the details on the queue all the same
CallbackStoreFailed_publishes(h, payload) ==
    /\ Receives(h)
    /\ process_callback(payload).kind = "return"
    /\ reply' = [reply EXCEPT ![h] = Failed("database error")]
    /\ hdata' = [hdata EXCEPT ![h] = payload]
    /\ hrow' = [hrow EXCEPT ![h] = 0]
    /\ message_queue' = QueuePut(message_queue,
                                 [serial |-> Len(published) + 1,
                                  details |-> process_callback(payload).value])
    /\ published' = Append(published, [details |-> process_callback(payload).value,
                                       row |-> 0, waiting |-> Waiting])
    /\ UNCHANGED <<db, hpc, hdetails, sub, received>>

\* mpesa_callback, lines 174-185 and 196-198: store_transaction_details
\* raised (a NOT NULL column is None, or the database failed) and rolled back
CallbackStoreFailed(h, payload) ==
    /\ Receives(h)
    /\ process_callback(payload).kind = "return"
    /\ reply' = [reply EXCEPT ![h] = Failed("database error")]
    /\ hdata' = [hdata EXCEPT ![h] = payload]
    /\ hrow' = [hrow EXCEPT ![h] = 0]
    /\ UNCHANGED <<message_queue, db, hpc, hdetails, sub, received, published>>

\* mpesa_callback, lines 174-185: the row is committed (lines 219-229)
CallbackStored(h, payload) ==
    /\ Receives(h)
    /\ process_callback(payload).kind = "return"
    /\ ~ViolatesNotNull(process_callback(payload).value)
    /\ db' = DbAdd(db, Row(process_callback(payload).value))
    /\ hdetails' = [hdetails EXCEPT ![h] = process_callback(payload).value]
    /\ hdata' = [hdata EXCEPT ![h] = payload]
    /\ hrow' = [hrow EXCEPT ![h] = Len(db')]
    /\ hpc' = [hpc EXCEPT ![h] = "stored"]
    /\ reply' = [reply EXCEPT ![h] = NoReply]
    /\ UNCHANGED <<message_queue, sub, received, published>>

\* mpesa_callback, lines 188-195: message_queue.put, then the success reply
CallbackPublish(h) ==
    /\ hpc[h] = "stored"
    /\ message_queue' = QueuePut(message_queue,
                                 [serial |-> Len(published) + 1, details |-> hdetails[h]])
    /\ published' = Append(published, [details |-> hdetails[h], row |-> hrow[h],
                                       waiting |-> Waiting])
    /\ reply' = [reply EXCEPT ![h] = Accepted(hdetails[h])]
    /\ hpc' = [hpc EXCEPT ![h] = "idle"]
    /\ hdetails' = [hdetails EXCEPT ![h] = None]
    /\ UNCHANGED <<db, hdata, hrow, sub, received, webhooks>>

\* stream, lines 200-206: a client opens /stream; its generator blocks in
\* message_queue.get(timeout=10)
Connect(x) ==
    /\ sub[x] = "none"
    /\ sub' = [sub EXCEPT ![x] = "waiting"]
    /\ UNCHANGED <<message_queue, db, hpc, hdetails, hdata, hrow, reply, received, published,
                   webhooks>>

\* event_stream, lines 206-207: get returns an item, the frame is yielded and
\* the loop goes back to get
Deliver(x) ==
    /\ sub[x] = "waiting"
    /\ message_queue # <<>>
    /\ received' = [received EXCEPT ![x] = Append(@, DataFrame(Head(message_queue)))]
    /\ message_queue' = Tail(message_queue)
    /\ UNCHANGED <<db, hpc, hdetails, hdata, hrow, reply, sub, published, webhooks>>

\* event_stream, lines 206 and 208-210: the queue stayed empty for the 10
\* seconds, get raised queue.Empty; the except clause is outside the while
\* loop, so after the keep-alive the generator returns
IdleTimeout(x) ==
    /\ sub[x] = "waiting"
    /\ message_queue = <<>>
    /\ received' = [received EXCEPT ![x] = Append(@, KeepAliveFrame)]
    /\ sub' = [sub EXCEPT ![x] = "ended"]
    /\ UNCHANGED <<message_queue, db, hpc, hdetails, hdata, hrow, reply, published, webhooks>>

-----------------------------------------------------------------------------
(* normalize_phone_number (src/mpesa.py); a str is the sequence of its characters *)

IsDigit(ch) == ch \in {"0", "1", "2", "3", "4", "5", "6", "7", "8", "9"}

\* s.startswith(prefix)
StartsWith(s, prefix) ==
    /\ Len(s) >= Len(prefix)
    /\ SubSeq(s, 1, Len(prefix)) = prefix

\* s.lstrip(chars): every leading character that is in chars is removed
RECURSIVE LStrip(_, _)
LStrip(s, chars) ==
    IF s # <<>> /\ Head(s) \in chars THEN LStrip(Tail(s), chars) ELSE s

\* the else branch converting what it should reject
normalize_phone_number_lenient(phone_number) ==
    LET digits == SelectSeq(phone_number, IsDigit)
    IN  IF StartsWith(digits, <<"2", "5", "4">>) THEN Return(digits)
        ELSE Return(<<"2", "5", "4">> \o LStrip(digits, {"0", "7"}))

\* lines 249-263
normalize_phone_number(phone_number) ==
    LET digits == SelectSeq(phone_number, IsDigit)
    IN  IF StartsWith(digits, <<"2", "5", "4">>) THEN Return(digits)
        ELSE IF StartsWith(digits, <<"0", "7">>) \/ StartsWith(digits, <<"7">>)
             THEN Return(<<"2", "5", "4">> \o LStrip(digits, {"0", "7"}))
        ELSE Raise("Invalid phone number format. Must start with +254, 07, or 7.")

\* characters of the inputs
Chars == {"0", "1", "2", "4", "5", "7", "+"}
PhoneInputs == UNION { [1..n -> Chars] : n \in 0..MaxLen }

NormIdle ==
    /\ norm_input = <<>>
    /\ norm_result = NoResult

NormInit ==
    /\ norm_input \in PhoneInputs
    /\ norm_result = NoResult

\* normalize_phone_number(phone_number) is called
Normalize ==
    /\ norm_result = NoResult
    /\ norm_result' = normalize_phone_number(norm_input)
    /\ UNCHANGED norm_input

-----------------------------------------------------------------------------
(* MPesaClient.send_stk_push (src/mpesa.py); a phone number is None or a str *)

\* the tuple (jsonify({"error": message}), 400) of line 139
ErrorResponse(message) ==
    [t |-> "tuple", v |-> <<Obj([error |-> Str(message)]), Num("400")>>]

\* not phone_number or not phone_number.startswith("254"), line 135
NeedsNormalizing(phone_number) ==
    \/ phone_number = None
    \/ phone_number.v = <<>>
    \/ ~StartsWith(phone_number.v, <<"2", "5", "4">>)

\* lines 135-139: the phone number the method goes on with, or how it ends;
\* filter(str.isdigit, None) raises TypeError, which line 138 does not catch
CheckPhone(phone_number) ==
    IF ~NeedsNormalizing(phone_number) THEN [kind |-> "pass", value |-> phone_number]
    ELSE IF phone_number = None THEN Raise("TypeError")
    ELSE LET r == normalize_phone_number(phone_number.v)
         IN  IF r.kind = "return" THEN [kind |-> "pass", value |-> Str(r.value)]
             ELSE Return(ErrorResponse(r.value))

\* lines 135-142: the input validation
Validate(phone_number, amount) ==
    IF CheckPhone(phone_number).kind # "pass" THEN CheckPhone(phone_number)
    ELSE IF amount <= 0 THEN Raise("Amount must be a positive number")
    ELSE CheckPhone(phone_number)

NoArgs == [phone_number |-> None, amount |-> 0, party |-> None]

PushInit ==
    /\ args = [c \in Callers |-> NoArgs]
    /\ pushRequests = 0

PushIdle == PushInit

\* a thread calls send_stk_push(phone_number, amount)
EntersPush(c, phone_number, amount) ==
    /\ pc[c] = "idle"
    /\ calls < MaxCalls
    /\ calls' = calls + 1
    /\ op' = [op EXCEPT ![c] = "stk_push"]
    /\ attempt' = [attempt EXCEPT ![c] = 0]
    /\ responses' = [responses EXCEPT ![c] = <<>>]
    /\ sleeps' = [sleeps EXCEPT ![c] = 0]
    /\ cached' = [cached EXCEPT ![c] = FALSE]
    /\ UNCHANGED <<now, token, token_expires_at, tokenRequests, pushRequests>>

\* send_stk_push, lines 135-142: the validation ends the call
StkPushInvalid(c, phone_number, amount) ==
    /\ EntersPush(c, phone_number, amount)
    /\ Validate(phone_number, amount).kind # "pass"
    /\ args' = [args EXCEPT ![c] = [phone_number |-> phone_number, amount |-> amount,
                                     party |-> None]]
    /\ pc' = [pc EXCEPT ![c] = "done"]
    /\ result' = [result EXCEPT ![c] = Validate(phone_number, amount)]

\* send_stk_push, lines 135-145: the validation passes, _get_mpesa_token is called
StkPushValid(c, phone_number, amount) ==
    /\ EntersPush(c, phone_number, amount)
    /\ Validate(phone_number, amount).kind = "pass"
    /\ args' = [args EXCEPT ![c] = [phone_number |-> phone_number, amount |-> amount,
                                     party |-> Validate(phone_number, amount).value]]
    /\ pc' = [pc EXCEPT ![c] = "token_check"]
    /\ result' = [result EXCEPT ![c] = NoResult]

\* requests.post at line 165 came back: the response is logged
PushPost(c, response) ==
    /\ pc[c] = "push_post"
    /\ pushRequests' = pushRequests + 1
    /\ responses' = [responses EXCEPT ![c] = Append(@, response)]
    /\ pc' = [pc EXCEPT ![c] = "done"]
    /\ UNCHANGED <<now, token, token_expires_at, op, attempt, sleeps, cached,
                   tokenRequests, calls, args>>

\* send_stk_push, lines 165-166 and 179-181: requests.RequestException, from
\* raise_for_status (an error status, here 503) or from requests.post itself
PushRequestException(c) ==
    /\ PushPost(c, [status |-> 503])
    /\ result' = [result EXCEPT ![c] = Raise("STK Push request failed")]

\* send_stk_push, lines 168-177: a success status with a JSON body
PushAnswered(c, resp_data) ==
    /\ PushPost(c, [status |-> 200, body |-> resp_data])
    /\ LET checkout_request_id == DictGet(resp_data, "CheckoutRequestID", None)
       IN  result' = [result EXCEPT ![c] =
             IF checkout_request_id = None \/ checkout_request_id = Str("")
             THEN Raise("No CheckoutRequestID received")
             ELSE Return(checkout_request_id)]

\* bodies the payment-initiation endpoint answers with
PushBodies ==
    { Obj([CheckoutRequestID |-> Str("ws_CO_1"), ResponseCode |-> Str("0")]),
      Obj([CheckoutRequestID |-> Str("")]),
      Obj([errorMessage |-> Str("Invalid Access Token")]) }

\* arguments send_stk_push is called with
PushPhones ==
    { None, Str(<<>>), Str(<<"1", "2">>), Str(<<"+">>), Str(<<"0", "7", "1">>),
      Str(<<"2", "5", "4", "7">>) }
PushAmounts == {-1, 0, 1}

-----------------------------------------------------------------------------
(* Specifications *)

InitGateway == GatewayInit /\ PushIdle /\ CallbackIdle /\ StreamIdle /\ NormIdle
NextGateway ==
    \/ Tick /\ UNCHANGED <<pushVars, callbackVars, streamVars, normVars>>
    \/ \E c \in Callers : StartAuthenticate(c) /\ UNCHANGED <<pushVars, callbackVars, streamVars, normVars>>
    \/ \E c \in Callers : StartQuery(c) /\ UNCHANGED <<pushVars, callbackVars, streamVars, normVars>>
    \/ \E c \in Callers : TokenCheck(c) /\ UNCHANGED <<pushVars, callbackVars, streamVars, normVars>>
    \/ \E c \in Callers : \E hasToken \in BOOLEAN :
          TokenGranted(c, hasToken) /\ UNCHANGED <<pushVars, callbackVars, streamVars, normVars>>
    \/ \E c \in Callers : TokenRefused(c) /\ UNCHANGED <<pushVars, callbackVars, streamVars, normVars>>
    \/ \E c \in Callers : QueryServerError(c) /\ UNCHANGED <<pushVars, callbackVars, streamVars, normVars>>
    \/ \E c \in Callers : \E b \in StatusBodies :
          QuerySuccess(c, b) /\ UNCHANGED <<pushVars, callbackVars, streamVars, normVars>>
    \/ \E c \in Callers : QueryRequestException(c) /\ UNCHANGED <<pushVars, callbackVars, streamVars, normVars>>
    \/ \E c \in Callers : QuerySleep(c) /\ UNCHANGED <<pushVars, callbackVars, streamVars, normVars>>
    \/ \E c \in Callers : Finish(c) /\ UNCHANGED <<pushVars, callbackVars, streamVars, normVars>>
SpecGateway == InitGateway /\ [][NextGateway]_vars

InitCallback == GatewayIdle /\ PushIdle /\ CallbackInit /\ StreamIdle /\ NormIdle
NextCallback == ProcessCallback /\ UNCHANGED <<gatewayVars, pushVars, streamVars, normVars>>
SpecCallback == InitCallback /\ [][NextCallback]_vars

InitStream == GatewayIdle /\ PushIdle /\ CallbackIdle /\ StreamInit /\ NormIdle
NextStream ==
    \/ \E h \in Handlers : \E payload \in WebhookPayloads :
          CallbackRejected(h, payload) /\ UNCHANGED <<gatewayVars, pushVars, callbackVars, normVars>>
    \/ \E h \in Handlers : \E payload \in WebhookPayloads :
          CallbackStoreFailed(h, payload) /\ UNCHANGED <<gatewayVars, pushVars, callbackVars, normVars>>
    \/ \E h \in Handlers : \E payload \in WebhookPayloads :
          CallbackStored(h, payload) /\ UNCHANGED <<gatewayVars, pushVars, callbackVars, normVars>>
    \/ \E h \in Handlers : CallbackPublish(h) /\ UNCHANGED <<gatewayVars, pushVars, callbackVars, normVars>>
    \/ \E x \in Subscribers : Connect(x) /\ UNCHANGED <<gatewayVars, pushVars, callbackVars, normVars>>
    \/ \E x \in Subscribers : Deliver(x) /\ UNCHANGED <<gatewayVars, pushVars, callbackVars, normVars>>
    \/ \E x \in Subscribers : IdleTimeout(x) /\ UNCHANGED <<gatewayVars, pushVars, callbackVars, normVars>>
SpecStream == InitStream /\ [][NextStream]_vars

InitNorm == GatewayIdle /\ PushIdle /\ CallbackIdle /\ StreamIdle /\ NormInit
NextNorm == Normalize /\ UNCHANGED <<gatewayVars, pushVars, callbackVars, streamVars>>
SpecNorm == InitNorm /\ [][NextNorm]_vars

InitPush == GatewayInit /\ PushInit /\ CallbackIdle /\ StreamIdle /\ NormIdle
NextPush ==
    \/ Tick /\ UNCHANGED <<pushVars, callbackVars, streamVars, normVars>>
    \/ \E c \in Callers :
          StartAuthenticate(c) /\ UNCHANGED <<pushVars, callbackVars, streamVars, normVars>>
    \/ \E c \in Callers : \E phone_number \in PushPhones : \E amount \in PushAmounts :
          StkPushInvalid(c, phone_number, amount)
          /\ UNCHANGED <<callbackVars, streamVars, normVars>>
    \/ \E c \in Callers : \E phone_number \in PushPhones : \E amount \in PushAmounts :
          StkPushValid(c, phone_number, amount)
          /\ UNCHANGED <<callbackVars, streamVars, normVars>>
    \/ \E c \in Callers :
          TokenCheck(c) /\ UNCHANGED <<pushVars, callbackVars, streamVars, normVars>>
    \/ \E c \in Callers : \E hasToken \in BOOLEAN :
          TokenGranted(c, hasToken)
          /\ UNCHANGED <<pushVars, callbackVars, streamVars, normVars>>
    \/ \E c \in Callers :
          TokenRefused(c) /\ UNCHANGED <<pushVars, callbackVars, streamVars, normVars>>
    \/ \E c \in Callers :
          PushRequestException(c) /\ UNCHANGED <<callbackVars, streamVars, normVars>>
    \/ \E c \in Callers : \E resp_data \in PushBodies :
          PushAnswered(c, resp_data) /\ UNCHANGED <<callbackVars, streamVars, normVars>>
    \/ \E c \in Callers :
          Finish(c) /\ UNCHANGED <<pushVars, callbackVars, streamVars, normVars>>
SpecPush == InitPush /\ [][NextPush]_vars

-----------------------------------------------------------------------------
(* Properties of MPesaClient *)

\* the cached token exists and its expiry instant has not passed
C1_InValidityWindow ==
    /\ token # None
    /\ token_expires_at # None
    /\ now < token_expires_at.v

\* C1: a call of _get_mpesa_token that tests the cache while the cached token
\* exists and has not expired sends no token request, leaves the cached token
\* and its expiry as they are and returns that token; so of any number of
\* calls inside one validity window only the first sent a request.
C1_CachedTokenReused ==
    [][\A c \in Callers :
          (pc[c] = "token_check" /\ pc'[c] # "token_check" /\ C1_InValidityWindow)
          => /\ tokenRequests' = tokenRequests
             /\ token' = token
             /\ token_expires_at' = token_expires_at
             /\ pc'[c] # "token_request"
             /\ (op[c] = "authenticate" => result'[c] = Return(token))]_vars

\* two calls of authenticate were made, one token request was sent, and the
\* later call returned the cached token
C1_Witness ==
    \E c \in Callers :
        /\ pc[c] = "done" /\ op[c] = "authenticate" /\ cached[c]
        /\ calls = 2 /\ tokenRequests = 1
        /\ token # None /\ result[c] = Return(token)

C2_Transient == [status |-> 500]
C2_AllTransient(r) == \A i \in 1..Len(r) : r[i] = C2_Transient
C2_TokenFailure == Raise("Failed to generate M-Pesa token")

\* C2: one call of query_transaction_status never sends a 4th status request;
\* when the endpoint answered 500, 500 and then a success, the call returns
\* the result built from that third response; when every answer was 500 (and
\* the token endpoint did not fail) the call ends only after exactly 3
\* requests, raising the retries-exhausted error.
C2_RetryBound ==
    \A c \in Callers : op[c] = "query" =>
        /\ Len(responses[c]) <= 3
        /\ ( /\ pc[c] = "done"
             /\ Len(responses[c]) = 3
             /\ responses[c][1] = C2_Transient
             /\ responses[c][2] = C2_Transient
             /\ responses[c][3].status = 200 )
           => result[c] = Return(StatusResult(responses[c][3].body))
        /\ ( /\ pc[c] = "done"
             /\ C2_AllTransient(responses[c])
             /\ result[c] # C2_TokenFailure )
           => /\ Len(responses[c]) = 3
              /\ result[c] =
                   Raise("Unable to query transaction status after maximum retries")

\* one call got 500, 500, success and returned; another got 500 three times
\* and raised
C2_Witness ==
    \E c, d \in Callers :
        /\ pc[c] = "done" /\ op[c] = "query" /\ Len(responses[c]) = 3
        /\ responses[c][1] = C2_Transient /\ responses[c][2] = C2_Transient
        /\ responses[c][3].status = 200 /\ result[c].kind = "return"
        /\ pc[d] = "done" /\ op[d] = "query" /\ Len(responses[d]) = 3
        /\ C2_AllTransient(responses[d]) /\ result[d].kind = "raise"

-----------------------------------------------------------------------------
(* Properties of the event stream *)

GotKeepAlive(x) == \E i \in 1..Len(received[x]) : received[x][i].kind = "keep-alive"

\* the data frames client x got for put number n
FramesOf(x, n) ==
    {i \in 1..Len(received[x]) :
        received[x][i].kind = "data" /\ received[x][i].serial = n}

InQueue(n) == \E i \in 1..Len(message_queue) : message_queue[i].serial = n

\* C3: a client that got a keep-alive is still subscribed: its stream is open
\* and waiting for the next outcome.
C3_KeepAliveKeepsSubscription ==
    \A x \in Subscribers : GotKeepAlive(x) => sub[x] = "waiting"

\* C4: an outcome published while two or more clients were waiting reaches
\* every one of them: once it has left the queue, each of them has its frame.
C4_FanOut ==
    \A n \in 1..Len(published) :
        (Cardinality(published[n].waiting) >= 2 /\ ~InQueue(n))
        => \A x \in published[n].waiting : FramesOf(x, n) # {}

\* C5: a client sees only outcomes published while it was connected.
C5_LateSubscriberSeesNothing ==
    \A x \in Subscribers : \A i \in 1..Len(received[x]) :
        received[x][i].kind = "data"
        => x \in published[received[x][i].serial].waiting

\* json.loads of what json.dumps wrote
JsonValue(literal) ==
    IF literal.lit = "null" THEN None
    ELSE IF literal.lit = "string" THEN Str(literal.text)
    ELSE Num(literal.text)
JsonLoads(members) ==
    [k \in {members[i][1] : i \in 1..Len(members)} |->
        JsonValue((CHOOSE m \in {members[i] : i \in 1..Len(members)} : m[1] = k)[2])]

\* C6: with a single stream client, an outcome published while that client
\* was waiting is in the queue or has been delivered to it, exactly once, and
\* the frame decodes to the published outcome with every field value as
\* published.
C6_ExactDelivery ==
    \A x \in Subscribers : \A n \in 1..Len(published) :
        ( /\ published[n].waiting = {x}
          /\ \A y \in Subscribers \ {x} : sub[y] = "none" )
        => /\ InQueue(n) => FramesOf(x, n) = {}
           /\ ~InQueue(n) => Cardinality(FramesOf(x, n)) = 1
           /\ \A i \in FramesOf(x, n) :
                 JsonLoads(received[x][i].data) = published[n].details

\* the only client was waiting when a successful outcome was published and
\* has received it
C6_Witness ==
    \E x \in Subscribers : \E n \in 1..Len(published) :
        /\ published[n].waiting = {x}
        /\ \A y \in Subscribers \ {x} : sub[y] = "none"
        /\ published[n].details.amount = Num("500")
        /\ Cardinality(FramesOf(x, n)) = 1

-----------------------------------------------------------------------------
(* Properties of MPesaCallback.process_callback *)

\* the stkCallback object of a payload, None when a container is missing
StkOf(payload) ==
    IF ~IsDict(payload) \/ "Body" \notin DOMAIN payload.v THEN None
    ELSE IF ~IsDict(payload.v["Body"])
            \/ "stkCallback" \notin DOMAIN payload.v["Body"].v THEN None
    ELSE IF ~IsDict(payload.v["Body"].v["stkCallback"]) THEN None
    ELSE payload.v["Body"].v["stkCallback"]

\* the payload carries field k of stkCallback
HasField(payload, k) == StkOf(payload) # None /\ k \in DOMAIN StkOf(payload).v

Processed == cb_result # NoResult

\* C7: a payload lacking CheckoutRequestID, ResultCode or ResultDesc (or the
\* Body or stkCallback container) makes process_callback raise; it yields no
\* outcome.
C7_MissingFieldRaises ==
    ( /\ Processed
      /\ \E k \in {"CheckoutRequestID", "ResultCode", "ResultDesc"} :
             ~HasField(cb_input, k) )
    => cb_result.kind = "raise"

SuccessOnlyUnset(d) ==
    /\ d.amount = None
    /\ d.mpesa_receipt_number = None
    /\ d.transaction_date = None
    /\ d.phone_number = None

\* C8: for a payload whose ResultCode is present and is not 0,
\* process_callback returns an outcome, and its four success-only fields are
\* all unset, whatever CallbackMetadata holds.
C8_FailureHasNoDetail ==
    ( /\ Processed
      /\ HasField(cb_input, "ResultCode")
      /\ StkOf(cb_input).v["ResultCode"] # Num("0") )
    => /\ cb_result.kind = "return"
       /\ SuccessOnlyUnset(cb_result.value)

\* a payload with ResultCode 1 and metadata naming all four fields was processed
C8_Witness ==
    /\ Processed
    /\ HasField(cb_input, "ResultCode")
    /\ StkOf(cb_input).v["ResultCode"] = Num("1")
    /\ HasField(cb_input, "CallbackMetadata")
    /\ LET meta == StkOf(cb_input).v["CallbackMetadata"]
       IN  /\ IsDict(meta) /\ "Item" \in DOMAIN meta.v /\ meta.v["Item"].t = "arr"
           /\ \A n \in {"Amount", "MpesaReceiptNumber", "TransactionDate", "PhoneNumber"} :
                 \E i \in 1..Len(meta.v["Item"].v) :
                    /\ DictGet(meta.v["Item"].v[i], "Name", None) = Str(n)
                    /\ DictGet(meta.v["Item"].v[i], "Value", None) # None
    /\ cb_result.kind = "return"

\* the items of a payload whose metadata is a list of objects (no metadata or
\* no Item key: the empty list)
WellFormedItems(payload) ==
    LET stk == StkOf(payload)
        meta == DictGet(stk, "CallbackMetadata", EmptyDict)
    IN  /\ stk # None
        /\ IsDict(meta)
        /\ DictGet(meta, "Item", Arr(<<>>)).t = "arr"
        /\ \A i \in 1..Len(DictGet(meta, "Item", Arr(<<>>)).v) :
              IsDict(DictGet(meta, "Item", Arr(<<>>)).v[i])

ItemsOf(payload) ==
    DictGet(DictGet(StkOf(payload), "CallbackMetadata", EmptyDict), "Item", Arr(<<>>)).v

\* the value the metadata gives for a name: that of the last item so named,
\* None when there is none or when that item has no value or a null one
GivenValue(items, n) ==
    LET named == {i \in 1..Len(items) : DictGet(items[i], "Name", None) = Str(n)}
    IN  IF named = {} THEN None
        ELSE DictGet(items[CHOOSE i \in named : \A j \in named : j <= i], "Value", None)

\* C9: for a payload with ResultCode 0 whose metadata is a list of items,
\* process_callback returns an outcome whose amount, mpesa_receipt_number,
\* transaction_date and phone_number are the values given for Amount,
\* MpesaReceiptNumber, TransactionDate and PhoneNumber; items of any other
\* name change nothing, and a name that is absent or has a missing or null
\* value leaves its field unset.
C9_SuccessMapsMetadata ==
    ( /\ Processed
      /\ HasField(cb_input, "ResultCode")
      /\ StkOf(cb_input).v["ResultCode"] = Num("0")
      /\ WellFormedItems(cb_input) )
    => /\ cb_result.kind = "return"
       /\ cb_result.value =
            [checkout_request_id |-> DictGet(StkOf(cb_input), "CheckoutRequestID", None),
             result_code |-> Num("0"),
             result_desc |-> DictGet(StkOf(cb_input), "ResultDesc", None),
             amount |-> GivenValue(ItemsOf(cb_input), "Amount"),
             mpesa_receipt_number |-> GivenValue(ItemsOf(cb_input), "MpesaReceiptNumber"),
             transaction_date |-> GivenValue(ItemsOf(cb_input), "TransactionDate"),
             phone_number |-> GivenValue(ItemsOf(cb_input), "PhoneNumber")]

\* the payload of the example (Amount=500, MpesaReceiptNumber="ABC123",
\* TransactionDate=20240101120000, PhoneNumber=254712345678) was processed
\* and all four fields are populated as given
C9_Witness ==
    /\ Processed
    /\ HasField(cb_input, "ResultCode")
    /\ StkOf(cb_input).v["ResultCode"] = Num("0")
    /\ WellFormedItems(cb_input)
    /\ Len(ItemsOf(cb_input)) = 4
    /\ cb_result.kind = "return"
    /\ cb_result.value.amount = Num("500")
    /\ cb_result.value.mpesa_receipt_number = Str("ABC123")
    /\ cb_result.value.transaction_date = Num("20240101120000")
    /\ cb_result.value.phone_number = Num("254712345678")

-----------------------------------------------------------------------------
(* Properties of normalize_phone_number *)

\* C10: for an input whose digits are the trunk prefix 0 followed by a
\* subscriber number (leading digit 7), normalize returns 254 followed by that
\* subscriber number, every digit of it kept.
C10_TrunkPrefixKeepsSubscriber ==
    LET digits == SelectSeq(norm_input, IsDigit)
        subscriber == Tail(digits)
    IN  ( /\ norm_result # NoResult
          /\ StartsWith(digits, <<"0", "7">>) )
        => norm_result = Return(<<"2", "5", "4">> \o subscriber)

\* C11: for an input whose digits (every other character dropped) begin
\* neither with 254 nor with 0 nor with 7, an input without any digit
\* included, normalize raises the invalid-format error and returns no number.
C11_UnrecognisedPrefixRaises ==
    LET digits == SelectSeq(norm_input, IsDigit)
    IN  ( /\ norm_result # NoResult
          /\ ~StartsWith(digits, <<"2", "5", "4">>)
          /\ ~StartsWith(digits, <<"0">>)
          /\ ~StartsWith(digits, <<"7">>) )
        => norm_result =
             Raise("Invalid phone number format. Must start with +254, 07, or 7.")

\* an input made of non-digits only was rejected
C11_Witness ==
    /\ norm_input # <<>>
    /\ SelectSeq(norm_input, IsDigit) = <<>>
    /\ norm_result.kind = "raise"

-----------------------------------------------------------------------------
(* Properties of send_stk_push and of concurrent callers *)

\* C12: a send_stk_push call with amount <= 0 ends at once with the
\* amount error: it never reaches the token check, the token request or the
\* push request, so it sends nothing and leaves the cached token alone.
C12_NonPositiveAmountRaises ==
    \A c \in Callers :
        (op[c] = "stk_push" /\ args[c].phone_number # None /\ args[c].amount <= 0)
        => /\ pc[c] = "done"
           /\ result[c] = Raise("Amount must be a positive number")

\* C13: two threads never both stand between the failed cache test and the
\* token request: at most one of them has decided to refresh the token.
C13_SingleRefresher ==
    Cardinality({c \in Callers : pc[c] = "token_request"}) <= 1

\* the digits of the phone number begin with none of 254, 0 and 7
Unnormalizable(phone_number) ==
    /\ phone_number # None
    /\ LET digits == SelectSeq(phone_number.v, IsDigit)
       IN  /\ ~StartsWith(digits, <<"2", "5", "4">>)
           /\ ~StartsWith(digits, <<"0">>)
           /\ ~StartsWith(digits, <<"7">>)

\* C17: a send_stk_push call whose phone number cannot be normalized ends
\* at once by raising the normalizer's error (it does not return a value), and
\* never reaches the token request or the push request.
C17_BadPhoneRaises ==
    \A c \in Callers :
        (op[c] = "stk_push" /\ Unnormalizable(args[c].phone_number))
        => /\ pc[c] = "done"
           /\ result[c] =
                Raise("Invalid phone number format. Must start with +254, 07, or 7.")

\* the push response carries a non-empty CheckoutRequestID
HasCheckoutId(response) ==
    /\ response.status = 200
    /\ DictGet(response.body, "CheckoutRequestID", None) \notin {None, Str("")}

\* C18: a finished send_stk_push call whose push request got an error status
\* or a response without CheckoutRequestID raised an error; a call that
\* returned a value had sent the push request, got a success response, and
\* returned that response's non-empty CheckoutRequestID.
C18_ReturnsOnlyCheckoutId ==
    \A c \in Callers :
        (op[c] = "stk_push" /\ pc[c] = "done")
        => /\ (Len(responses[c]) = 1 /\ ~HasCheckoutId(responses[c][1]))
                => result[c].kind = "raise"
           /\ result[c].kind = "return"
                => /\ Len(responses[c]) = 1
                   /\ HasCheckoutId(responses[c][1])
                   /\ result[c].value =
                        DictGet(responses[c][1].body, "CheckoutRequestID", None)

\* C19: one query_transaction_status call sends at most 3 status requests;
\* when it returns, its last response is the first success and the result is
\* built from it; when it raises, all 3 attempts have been made.
C19_FailsOnlyWhenExhausted ==
    \A c \in Callers : op[c] = "query" =>
        /\ Len(responses[c]) <= 3
        /\ \A i \in 1..Len(responses[c]) :
             responses[c][i].status = 200 => (i = Len(responses[c]) /\ pc[c] = "done")
        /\ (pc[c] = "done" /\ result[c].kind = "return")
             => /\ responses[c] # <<>>
                /\ responses[c][Len(responses[c])].status = 200
                /\ result[c] =
                     Return(StatusResult(responses[c][Len(responses[c])].body))
        /\ (pc[c] = "done" /\ result[c].kind = "raise")
             => Len(responses[c]) = 3

-----------------------------------------------------------------------------
(* Properties of the webhook handler and of the transaction table *)

\* process_callback returned the details of the handler's request
Interpreted(h) == process_callback(hdata[h]).kind = "return"

\* the handler's request added a row, and the table holds it
Stored(h) ==
    /\ hrow[h] \in 1..Len(db)
    /\ db[hrow[h]] = Row(process_callback(hdata[h]).value)

\* C14: a webhook request is answered with status 200 and ResultCode 0
\* exactly when process_callback returned its details and its row was
\* stored; every other request (process_callback raised, or the store
\* raised) is answered with status 500 and ResultCode 1.
C14_ReplyMatchesOutcome ==
    \A h \in Handlers : reply[h] # NoReply =>
        IF Interpreted(h) /\ Stored(h)
        THEN reply[h].status = 200 /\ reply[h].ResultCode = 0
        ELSE reply[h].status = 500 /\ reply[h].ResultCode = 1

\* one request was stored and accepted, another was interpreted but not
\* stored and was refused
C14_Witness ==
    \E h, g \in Handlers :
        /\ reply[h].status = 200 /\ Stored(h)
        /\ reply[g].status = 500 /\ Interpreted(g) /\ hrow[g] = 0

\* C15: every step leaves the transaction table as it is or appends exactly
\* one row after the rows already there, and the table grows exactly in the
\* steps where a handler has stored its request's details; so a webhook with
\* an id already in the table adds a second row and no row changes or goes.
C15_AppendOnly ==
    [][ LET storing == {h \in Handlers : hpc[h] = "idle" /\ hpc'[h] = "stored"}
        IN  IF storing = {}
            THEN db' = db
            ELSE \E h \in storing : db' = Append(db, Row(hdetails'[h])) ]_vars

\* two rows with the same checkout_request_id
C15_Witness ==
    /\ Len(db) = 2
    /\ db[1].checkout_request_id = db[2].checkout_request_id
    /\ db[1].checkout_request_id # None

\* C16: every row of the transaction table has a checkout_request_id that
\* is neither None nor the empty string.
C16_StoredIdNonEmpty ==
    \A i \in 1..Len(db) : db[i].checkout_request_id \notin {None, Str("")}

\* C20: every outcome put on the message queue is the details of a row that
\* was in the table when it was put and still is, each put having a row of
\* its own; a request whose store failed has no row, so nothing is put for it.
C20_StoredBeforePublished ==
    /\ \A n \in 1..Len(published) :
          /\ published[n].row \in 1..Len(db)
          /\ db[published[n].row] = Row(published[n].details)
    /\ \A m, n \in 1..Len(published) :
          m # n => published[m].row # published[n].row
    /\ \A h \in Handlers : hpc[h] = "stored" => hrow[h] \in 1..Len(db)

\* one outcome was stored and published; the store of another request failed
\* and nothing was published for it
C20_Witness ==
    /\ Len(published) = 1
    /\ Len(db) = 1
    /\ \E h \in Handlers : reply[h] = Failed("database error") /\ Interpreted(h)

-----------------------------------------------------------------------------
(* Properties of the retry delay of query_transaction_status *)

\* C21: one query_transaction_status call never sleeps more than twice, and
\* a finished call that sent k status requests (and did not end on a token
\* failure) has slept exactly k-1 times: only between attempts, never after
\* the last one.
C21_SleepsBetweenAttempts ==
    \A c \in Callers : op[c] = "query" =>
        /\ sleeps[c] <= max_retries - 1
        /\ ( /\ pc[c] = "done"
             /\ result[c] # Raise("Failed to generate M-Pesa token") )
           => sleeps[c] = Len(responses[c]) - 1

====
